---------------------------- MODULE Spec2Model ----------------------------
(***************************************************************************)
(* A model of version_bumper's Version class                               *)
(* (src/src/version_bumper/version.py): the parser (__init__), the         *)
(* renderer (__str__), the comparisons (__lt__, __eq__ and the operators   *)
(* functools.total_ordering derives from them) and the mutations bump,     *)
(* bump_release and set; and of the commands that apply them to the        *)
(* version stored in a pyproject.toml file (commands.py, pyproject.py,     *)
(* main of __main__.py).                                                   *)
(*                                                                         *)
(* Python strings are TLA+ strings; a character is a string of length 1.   *)
(* An optional integer (int | None) is the tuple <<>> for None and <<n>>   *)
(* for the integer n.                                                      *)
(***************************************************************************)
EXTENDS Integers, Sequences, FiniteSets, TLC

VARIABLES
    seg,      \* the pieces the input string was written from
    input,    \* the string handed to Version(...)
    v,        \* the fields of the Version object, NoVersion when there is none
    err,      \* the exception the last call on v raised, NoError if none
    op,       \* the last call: [name, part, value, clear_right]
    old,      \* the fields of v when the last call started
    steps,    \* number of bump / bump_release / set calls made on v
    wfrom,    \* how the string of the second Version(...) was made
    winput,   \* the string handed to the second Version(...)
    w,        \* the fields of the second Version object
    werr,     \* the exception the second constructor raised
    doc,      \* the content of the pyproject.toml file
    olddoc,   \* the content of the file when the last command started
    cmd,      \* the last command line handed to main
    result    \* what the last main(...) did: exit code, exception, log lines

vars == <<seg, input, v, err, op, old, steps, wfrom, winput, w, werr,
          doc, olddoc, cmd, result>>

\* the variables of the command line
cmdvars == <<doc, olddoc, cmd, result>>

-----------------------------------------------------------------------------
(* Bounds                                                                  *)

\* number of mutating calls made on one Version object
MaxSteps == 2

-----------------------------------------------------------------------------
(* Characters and Python str methods                                       *)

Ch(s, i) == SubSeq(s, i, i)

Tail1(s) == SubSeq(s, 2, Len(s))

\* the characters of the model, in code point order
Alphabet ==
    "\t\n\f\r !+-.0123456789ABCDEFGHIJKLMNOPQRSTUVWXYZ_abcdefghijklmnopqrstuvwxyz"

Ord(c) == CHOOSE i \in 1..Len(Alphabet) : Ch(Alphabet, i) = c

UpperAlpha == "ABCDEFGHIJKLMNOPQRSTUVWXYZ"

LowerAlpha == "abcdefghijklmnopqrstuvwxyz"

DigitChars == "0123456789"

CharsOf(s) == { Ch(s, i) : i \in 1..Len(s) }

UpperSet == CharsOf(UpperAlpha)

LowerSet == CharsOf(LowerAlpha)

DigitSet == CharsOf(DigitChars)

\* the characters \s matches and int() strips; "\v" (vertical tab) has no
\* TLA+ string escape and is left out of the alphabet
Whitespace == {" ", "\t", "\n", "\r", "\f"}

IsDigit(c) == c \in DigitSet

\* str.lower() on one character
LowerCh(c) ==
    IF c \in UpperSet
    THEN Ch(LowerAlpha, CHOOSE i \in 1..26 : Ch(UpperAlpha, i) = c)
    ELSE c

RECURSIVE MapLower(_)
MapLower(s) == IF s = "" THEN "" ELSE LowerCh(Ch(s, 1)) \o MapLower(Tail1(s))

\* lower forgotten: the string is taken as written
lower_mut(s) == s

\* str.lower()
lower(s) == MapLower(s)

\* str.lstrip(chars)
RECURSIVE lstrip(_, _)
lstrip(s, chars) ==
    IF s # "" /\ Ch(s, 1) \in chars THEN lstrip(Tail1(s), chars) ELSE s

\* str.rstrip(chars)
RECURSIVE rstrip(_, _)
rstrip(s, chars) ==
    IF s # "" /\ Ch(s, Len(s)) \in chars
    THEN rstrip(SubSeq(s, 1, Len(s) - 1), chars)
    ELSE s

\* str.strip(chars)
strip(s, chars) == rstrip(lstrip(s, chars), chars)

\* str.startswith(prefix)
startswith(s, prefix) ==
    Len(prefix) <= Len(s) /\ SubSeq(s, 1, Len(prefix)) = prefix

\* str.replace(o, n) for a non-empty o: leftmost, non-overlapping
RECURSIVE replace(_, _, _)
replace(s, o, n) ==
    IF Len(s) < Len(o) THEN s
    ELSE IF startswith(s, o)
         THEN n \o replace(SubSeq(s, Len(o) + 1, Len(s)), o, n)
         ELSE Ch(s, 1) \o replace(Tail1(s), o, n)

\* all(c.isdigit() for c in s): true of the empty string
AllDigits(s) == \A i \in 1..Len(s) : IsDigit(Ch(s, i))

\* s < t on Python strings: lexicographic by code point
RECURSIVE StrLt(_, _)
StrLt(s, t) ==
    IF t = "" THEN FALSE
    ELSE IF s = "" THEN TRUE
    ELSE IF Ch(s, 1) = Ch(t, 1) THEN StrLt(Tail1(s), Tail1(t))
    ELSE Ord(Ch(s, 1)) < Ord(Ch(t, 1))

\* value of one decimal digit
DigitVal(c) == (CHOOSE i \in 1..10 : Ch(DigitChars, i) = c) - 1

\* int(s) for a non-empty string of decimal digits
RECURSIVE DecValue(_)
DecValue(s) ==
    IF s = "" THEN 0
    ELSE 10 * DecValue(SubSeq(s, 1, Len(s) - 1)) + DigitVal(Ch(s, Len(s)))

\* str(n) for a natural number n
RECURSIVE NatToStr(_)
NatToStr(n) ==
    IF n < 10 THEN Ch(DigitChars, n + 1)
    ELSE NatToStr(n \div 10) \o Ch(DigitChars, (n % 10) + 1)

\* str(n) for an integer n
IntToStr(n) == IF n < 0 THEN "-" \o NatToStr(0 - n) ELSE NatToStr(n)

\* number of digits from position i of s on
RECURSIVE DigitRun(_, _)
DigitRun(s, i) ==
    IF i <= Len(s) /\ IsDigit(Ch(s, i)) THEN 1 + DigitRun(s, i + 1) ELSE 0

\* number of digits that end at position i of s
RECURSIVE DigitRunBack(_, _)
DigitRunBack(s, i) ==
    IF i >= 1 /\ IsDigit(Ch(s, i)) THEN 1 + DigitRunBack(s, i - 1) ELSE 0

\* the sequence <<hi, hi - 1, ..., lo>>
Down(hi, lo) == [k \in 1..(hi - lo + 1) |-> hi + 1 - k]

NoError == [type |-> "", msg |-> ""]

ValueError(msg) == [type |-> "ValueError", msg |-> msg]

\* int(s) for any string: surrounding whitespace, an optional sign, decimal
\* digits with single underscores between them; <<>> when int raises
PyInt(s) ==
    LET t    == strip(s, Whitespace)
        neg  == t # "" /\ Ch(t, 1) = "-"
        body == IF t # "" /\ Ch(t, 1) \in {"+", "-"} THEN Tail1(t) ELSE t
        ok   == /\ body # ""
                /\ \A i \in 1..Len(body) : IsDigit(Ch(body, i)) \/ Ch(body, i) = "_"
                /\ IsDigit(Ch(body, 1))
                /\ IsDigit(Ch(body, Len(body)))
                /\ \A i \in 1..(Len(body) - 1) :
                      ~(Ch(body, i) = "_" /\ Ch(body, i + 1) = "_")
        n    == DecValue(replace(body, "_", ""))
    IN  IF ok THEN <<(IF neg THEN 0 - n ELSE n)>> ELSE <<>>

-----------------------------------------------------------------------------
(* Version constants                                                       *)

PARTS == <<"epoch", "major", "minor", "patch", "a", "b", "rc", "post", "dev", "local">>

PARSED_PARTS == <<"epoch", "major", "minor", "patch", "pre", "post", "dev", "local">>

PRE_PARTS == <<"a", "b", "c", "rc", "alpha", "beta", "pre", "preview">>

POST_PARTS == <<"r", "rev", "post">>

INT_PARTS == <<"epoch", "major", "minor", "patch">>

\* x in seq
In(x, sq) == \E i \in 1..Len(sq) : sq[i] = x

\* seq.index(x)
IndexOf(x, sq) == CHOOSE i \in 1..Len(sq) : sq[i] = x /\ \A j \in 1..(i - 1) : sq[j] # x

None == <<>>

Some(n) == <<n>>

NoVersion == [none |-> TRUE]

-----------------------------------------------------------------------------
(* VERSION_PATTERN, matched as re.match does it: every piece of the        *)
(* pattern lists the positions it can end at in the order the backtracking *)
(* matcher tries them (greedy quantifiers longest first, alternatives left *)
(* to right), and the match is the first combination that reaches the end  *)
(* of the string.  A position is the index of the next character to read.  *)

Separators == {"-", "_", "."}

\* [a-z0-9] under re.IGNORECASE
IsLocalCh(c) == c \in DigitSet \/ c \in LowerSet \/ c \in UpperSet

RECURSIVE WsRun(_, _)
WsRun(s, i) ==
    IF i <= Len(s) /\ Ch(s, i) \in Whitespace THEN 1 + WsRun(s, i + 1) ELSE 0

\* \s*
WsEnds(s, i) == Down(i + WsRun(s, i), i)

\* v?
VEnds(s, i) == IF i <= Len(s) /\ Ch(s, i) = "v" THEN <<i + 1, i>> ELSE <<i>>

\* (?:(?P<epoch>[0-9]+)!)?
EpochEnds(s, i) ==
    LET n == DigitRun(s, i)
    IN  IF n >= 1 /\ i + n <= Len(s) /\ Ch(s, i + n) = "!"
        THEN <<i + n + 1, i>>
        ELSE <<i>>

\* (?P<release>[0-9]+(?:\.[0-9]+)*)
RECURSIVE ReleaseEnds(_, _)
ReleaseEnds(s, i) ==
    LET n == DigitRun(s, i)
    IN  IF n = 0 THEN <<>>
        ELSE IF i + n < Len(s) /\ Ch(s, i + n) = "." /\ DigitRun(s, i + n + 1) >= 1
             THEN ReleaseEnds(s, i + n + 1) \o Down(i + n, i + 1)
             ELSE Down(i + n, i + 1)

\* [0-9]+ at position i
DigitsEnds(s, i) == LET n == DigitRun(s, i) IN Down(i + n, i + 1)

\* [-_\.]? at position i: the positions after it
SepEnds(s, i) ==
    IF i <= Len(s) /\ Ch(s, i) \in Separators THEN <<i + 1, i>> ELSE <<i>>

\* concatenation of the sequences f[1], ..., f[n]
RECURSIVE Flatten(_)
Flatten(f) == IF Len(f) = 0 THEN <<>> ELSE Head(f) \o Flatten(Tail(f))

\* word [-_\.]? ([0-9]+)? at position i, for one spelling
WordEnds(s, i, word) ==
    IF i + Len(word) - 1 <= Len(s) /\ SubSeq(s, i, i + Len(word) - 1) = word
    THEN LET k  == i + Len(word)
             s2 == SepEnds(s, k)
         IN  Flatten([x \in 1..Len(s2) |-> DigitsEnds(s, s2[x]) \o <<s2[x]>>])
    ELSE <<>>

\* [-_\.]? (w1|w2|...) [-_\.]? ([0-9]+)? at position i
TagEnds(s, i, words) ==
    LET s1 == SepEnds(s, i)
    IN  Flatten([x \in 1..Len(s1) |->
            Flatten([y \in 1..Len(words) |-> WordEnds(s, s1[x], words[y])])])

\* (?P<pre> ... )?
PreEnds(s, i) ==
    TagEnds(s, i, <<"a", "b", "c", "rc", "alpha", "beta", "pre", "preview">>) \o <<i>>

\* (?P<post> (?:-(?P<post_n1>[0-9]+)) | (?: ... ) )?
PostEnds(s, i) ==
    (IF i <= Len(s) /\ Ch(s, i) = "-" THEN DigitsEnds(s, i + 1) ELSE <<>>)
    \o TagEnds(s, i, <<"post", "rev", "r">>) \o <<i>>

\* (?P<dev> ... )?
DevEnds(s, i) == TagEnds(s, i, <<"dev">>) \o <<i>>

RECURSIVE LocalChRun(_, _)
LocalChRun(s, i) ==
    IF i <= Len(s) /\ IsLocalCh(Ch(s, i)) THEN 1 + LocalChRun(s, i + 1) ELSE 0

\* [a-z0-9]+(?:[-_\.][a-z0-9]+)* at position i
RECURSIVE LocalBodyEnds(_, _)
LocalBodyEnds(s, i) ==
    LET n == LocalChRun(s, i)
    IN  IF n = 0 THEN <<>>
        ELSE IF i + n < Len(s) /\ Ch(s, i + n) \in Separators
                /\ LocalChRun(s, i + n + 1) >= 1
             THEN LocalBodyEnds(s, i + n + 1) \o Down(i + n, i + 1)
             ELSE Down(i + n, i + 1)

\* (?:\+(?P<local> ... ))?
LocalEnds(s, i) ==
    (IF i <= Len(s) /\ Ch(s, i) = "+" THEN LocalBodyEnds(s, i + 1) ELSE <<>>) \o <<i>>

\* \s*$ : the rest of the string is whitespace
AtEnd(s, i) == WsRun(s, i) = Len(s) - i + 1

\* the pieces of ^\s* VERSION_PATTERN, in order
StageEnds(k, s, i) ==
    CASE k = 1 -> WsEnds(s, i)
      [] k = 2 -> VEnds(s, i)
      [] k = 3 -> EpochEnds(s, i)
      [] k = 4 -> ReleaseEnds(s, i)
      [] k = 5 -> PreEnds(s, i)
      [] k = 6 -> PostEnds(s, i)
      [] k = 7 -> DevEnds(s, i)
      [] k = 8 -> LocalEnds(s, i)

NStages == 8

\* the positions at which the 8 pieces end in the first successful match
\* from piece k at position i (acc: the ends of the pieces before k), or <<>>
RECURSIVE MatchFrom(_, _, _, _), TryEnds(_, _, _, _, _)
MatchFrom(s, k, i, acc) ==
    IF k > NStages
    THEN (IF AtEnd(s, i) THEN acc ELSE <<>>)
    ELSE TryEnds(s, k, StageEnds(k, s, i), 1, acc)

TryEnds(s, k, ends, x, acc) ==
    IF x > Len(ends) THEN <<>>
    ELSE LET r == MatchFrom(s, k + 1, ends[x], Append(acc, ends[x]))
         IN  IF r # <<>> THEN r ELSE TryEnds(s, k, ends, x + 1, acc)

\* the named groups of the match whose pieces end at the positions e
Groups(s, e) ==
    IF e = <<>> THEN <<>>
    ELSE <<[epoch   |-> IF e[3] > e[2] THEN SubSeq(s, e[2], e[3] - 2) ELSE "",
            release |-> SubSeq(s, e[3], e[4] - 1),
            pre     |-> SubSeq(s, e[4], e[5] - 1),
            post    |-> SubSeq(s, e[5], e[6] - 1),
            dev     |-> SubSeq(s, e[6], e[7] - 1),
            local   |-> IF e[8] > e[7] THEN SubSeq(s, e[7] + 1, e[8] - 1) ELSE ""]>>

\* _regex.match(s): <<>> for None, else the named groups (a group that did
\* not take part in the match is the empty string, as `group(..) or ""`)
RegexMatch(s) == Groups(s, MatchFrom(s, 1, 1, <<>>))

-----------------------------------------------------------------------------
(* The normalizers                                                         *)

\* Version.__implicit_release: re.match(r"(.*\D)(\d+)$", release).  `$`
\* also matches before a final newline and `.` matches no newline.
implicit_release(release) ==
    LET L == Len(release)
        E == IF L >= 1 /\ Ch(release, L) = "\n" THEN L - 1 ELSE L
        n == DigitRunBack(release, E)
        matched == /\ n >= 1
                   /\ E - n >= 1
                   /\ \A i \in 1..(E - n - 1) : Ch(release, i) # "\n"
    IN  IF matched
        THEN SubSeq(release, 1, E - n)
             \o NatToStr(DecValue(SubSeq(release, E - n + 1, E)))
        ELSE release \o "0"

\* Version.__prefix_normalize
prefix_normalize(release, prefix) ==
    IF AllDigits(release) THEN prefix \o release ELSE release

\* release.replace(".", "").replace("-", "").replace("_", "")
DropSeparators(release) == replace(replace(replace(release, ".", ""), "-", ""), "_", "")

\* release[1:] if re.match(r"^[.\-_]", release)
DropLeadingSeparator(release) ==
    IF release # "" /\ Ch(release, 1) \in Separators THEN Tail1(release) ELSE release

\* __pre_normalize without the spelling c
pre_normalize_mut(release) ==
    IF release = "" THEN ""
    ELSE LET r1 == DropSeparators(release)
             r2 == replace(r1, "alpha", "a")
             r3 == replace(r2, "beta", "b")
             r5 == replace(r3, "preview", "rc")
             r6 == replace(r5, "pre", "rc")
         IN  implicit_release(prefix_normalize(r6, "pre"))

\* Version.__pre_normalize
pre_normalize(release) ==
    IF release = "" THEN ""
    ELSE LET r1 == DropSeparators(release)
             r2 == replace(r1, "alpha", "a")
             r3 == replace(r2, "beta", "b")
             r4 == IF startswith(r3, "c") THEN replace(r3, "c", "rc") ELSE r3
             r5 == replace(r4, "preview", "rc")
             r6 == replace(r5, "pre", "rc")
         IN  implicit_release(prefix_normalize(r6, "pre"))

\* Version.__post_normalize
post_normalize(release) ==
    IF release = "" THEN ""
    ELSE LET r1 == DropSeparators(DropLeadingSeparator(release))
             r2 == replace(r1, "rev", "post")
             r3 == replace(r2, "r", "post")
         IN  "." \o implicit_release(prefix_normalize(r3, "post"))

\* __dev_normalize without the implicit number
dev_normalize_mut(release) ==
    IF release = "" THEN ""
    ELSE LET r1 == DropSeparators(DropLeadingSeparator(release))
         IN  "." \o prefix_normalize(r1, "dev")

\* Version.__dev_normalize
dev_normalize(release) ==
    IF release = "" THEN ""
    ELSE LET r1 == DropSeparators(DropLeadingSeparator(release))
         IN  "." \o implicit_release(prefix_normalize(r1, "dev"))

\* Version.__local_normalize
local_normalize(release) ==
    IF release = "" THEN "" ELSE replace(replace(release, "-", "."), "_", ".")

\* tuple(map(int, release.split("."))) for a matched release segment
RECURSIVE release_parts(_)
release_parts(release) ==
    LET n == DigitRun(release, 1)
    IN  IF n = Len(release) THEN <<DecValue(release)>>
        ELSE <<DecValue(SubSeq(release, 1, n))>>
             \o release_parts(SubSeq(release, n + 2, Len(release)))

\* Version.__release_normalize (index counted from 0, as in the source)
release_normalize(parts, index, length, default_value) ==
    IF Len(parts) >= length THEN Some(parts[index + 1]) ELSE default_value

\* x or 0 for an optional integer x
OrZero(x) == IF x = None THEN 0 ELSE x[1]

-----------------------------------------------------------------------------
(* Version.__init__, __str__, __lt__, __eq__                               *)

\* the characters of version_str.strip("\t\n\r\f\v"); see Whitespace for "\v"
StripChars == {"\t", "\n", "\r", "\f"}

\* self.version_str
version_str(s) == lstrip(strip(lower(s), StripChars), {"v"})

\* lines 109-124 of __init__: the fields from the match groups g and the
\* release parts rp
Fields(g, rp) ==
    [epoch |-> IF g.epoch = "" THEN 0 ELSE DecValue(g.epoch),
     major |-> OrZero(release_normalize(rp, 0, 1, Some(0))),
     minor |-> release_normalize(rp, 1, 2, None),
     patch |-> release_normalize(rp, 2, 3, None),
     pre   |-> pre_normalize(g.pre),
     post  |-> post_normalize(g.post),
     dev   |-> dev_normalize(g.dev),
     local |-> local_normalize(g.local)]

\* lines 99-124 of __init__: the outcome for the normalised string vs, given
\* m = _regex.match(vs)
Matched(vs, m) ==
    IF m = <<>>
    THEN [v |-> NoVersion, err |-> ValueError("Invalid version string: " \o vs)]
    ELSE [v |-> Fields(m[1], release_parts(m[1].release)), err |-> NoError]

\* lines 99-124 of __init__, for the normalised string vs
Parsed(vs) == Matched(vs, RegexMatch(vs))

\* Version(s): [v |-> the fields, err |-> NoError], or no object and the
\* ValueError raised.  (version_str and release are attributes too; nothing
\* reads them after __init__.)
Version(s) == Parsed(version_str(s))

\* __str__ without the + in front of the local segment
str_mut(x) ==
    (IF x.epoch > 0 THEN IntToStr(x.epoch) \o "!" ELSE "")
    \o IntToStr(x.major)
    \o (IF x.minor # None THEN "." \o IntToStr(x.minor[1]) ELSE "")
    \o (IF x.patch # None THEN "." \o IntToStr(x.patch[1]) ELSE "")
    \o x.pre
    \o x.post
    \o x.dev
    \o x.local

\* Version.__str__
str(x) ==
    (IF x.epoch > 0 THEN IntToStr(x.epoch) \o "!" ELSE "")
    \o IntToStr(x.major)
    \o (IF x.minor # None THEN "." \o IntToStr(x.minor[1]) ELSE "")
    \o (IF x.patch # None THEN "." \o IntToStr(x.patch[1]) ELSE "")
    \o x.pre
    \o x.post
    \o x.dev
    \o (IF x.local # "" THEN "+" \o x.local ELSE "")

\* Version.__is_optional_value_less_than
is_optional_value_less_than(value1, value2) ==
    IF value1 = None /\ value2 # None THEN TRUE
    ELSE IF value1 # None /\ value2 # None THEN value1[1] < value2[1]
    ELSE FALSE

\* the comparison that stops at the first field that differs
lt_mut(self, other) ==
    IF self.epoch # other.epoch THEN self.epoch < other.epoch
    ELSE IF self.major # other.major THEN self.major < other.major
    ELSE IF self.minor # other.minor THEN is_optional_value_less_than(self.minor, other.minor)
    ELSE IF self.patch # other.patch THEN is_optional_value_less_than(self.patch, other.patch)
    ELSE IF self.pre # other.pre THEN StrLt(self.pre, other.pre)
    ELSE IF self.post # other.post THEN StrLt(self.post, other.post)
    ELSE IF self.dev # other.dev THEN StrLt(self.dev, other.dev)
    ELSE StrLt(self.local, other.local)

\* Version.__lt__
lt(self, other) ==
    IF self.epoch < other.epoch THEN TRUE
    ELSE IF self.major < other.major THEN TRUE
    ELSE IF is_optional_value_less_than(self.minor, other.minor) THEN TRUE
    ELSE IF is_optional_value_less_than(self.patch, other.patch) THEN TRUE
    ELSE IF StrLt(self.pre, other.pre) THEN TRUE
    ELSE IF StrLt(self.post, other.post) THEN TRUE
    ELSE IF StrLt(self.dev, other.dev) THEN TRUE
    ELSE StrLt(self.local, other.local)

\* Version.__eq__
eq(self, other) == str(self) = str(other)

\* self > other, as functools.total_ordering derives it from __lt__ and __eq__
gt(self, other) == ~lt(self, other) /\ ~eq(self, other)

-----------------------------------------------------------------------------
(* bump, bump_release, set                                                 *)

\* the ValueError int(s) raises
IntError(s) == ValueError("invalid literal for int() with base 10: '" \o s \o "'")

\* Version.__part_to_parsed_part
part_to_parsed_part(part) ==
    IF In(part, PRE_PARTS) THEN "pre"
    ELSE IF In(part, POST_PARTS) THEN "post"
    ELSE part

\* __bump_int_part without the test `part == prefix`
bump_int_part_mut(part, prefix, value) ==
    IF part # "" /\ prefix # "" THEN Some(OrZero(value) + 1) ELSE value

\* Version.__bump_int_part, for an optional integer value
bump_int_part(part, prefix, value) ==
    IF part # "" /\ prefix # "" /\ part = prefix THEN Some(OrZero(value) + 1) ELSE value

\* __bump_part that starts a tag without its number
bump_part_mut(part, prefix, value) ==
    IF part # "" /\ prefix # "" /\ prefix \in {part, "." \o part}
    THEN IF startswith(value, prefix)
         THEN LET n == PyInt(SubSeq(value, Len(prefix) + 1, Len(value)))
              IN  IF n = <<>> THEN <<>> ELSE <<prefix \o IntToStr(n[1] + 1)>>
         ELSE <<prefix>>
    ELSE <<value>>

\* Version.__bump_part: <<the new value>>, or <<>> when int(...) raises
bump_part(part, prefix, value) ==
    IF part # "" /\ prefix # "" /\ prefix \in {part, "." \o part}
    THEN IF startswith(value, prefix)
         THEN LET n == PyInt(SubSeq(value, Len(prefix) + 1, Len(value)))
              IN  IF n = <<>> THEN <<>> ELSE <<prefix \o IntToStr(n[1] + 1)>>
         ELSE <<prefix \o "1">>
    ELSE <<value>>

\* Version.__bump_local: re.match(r"(.*)(\d+)$", value); the greedy (.*)
\* leaves one digit to (\d+)
bump_local(part, value) ==
    IF part = "local"
    THEN LET L == Len(value)
             E == IF L >= 1 /\ Ch(value, L) = "\n" THEN L - 1 ELSE L
             matched == /\ E >= 1
                        /\ IsDigit(Ch(value, E))
                        /\ \A i \in 1..(E - 1) : Ch(value, i) # "\n"
         IN  IF matched
             THEN SubSeq(value, 1, E - 1) \o NatToStr(DigitVal(Ch(value, E)) + 1)
             ELSE value \o "1"
    ELSE value

\* the loop body without the exemption of major
clear_part_mut(x, part) ==
    IF part \in {"epoch", "major"} THEN [x EXCEPT ![part] = 0]
    ELSE IF part \in {"minor", "patch"}
         THEN (IF x[part] # None THEN [x EXCEPT ![part] = Some(0)] ELSE x)
    ELSE [x EXCEPT ![part] = ""]

\* one round of the loop of Version.__clear_parts
clear_part(x, part) ==
    IF part = "epoch" THEN [x EXCEPT !.epoch = 0]
    ELSE IF part \in {"minor", "patch"}
         THEN (IF x[part] # None THEN [x EXCEPT ![part] = Some(0)] ELSE x)
    ELSE IF part # "major" THEN [x EXCEPT ![part] = ""]
    ELSE x

\* Version.__clear_parts
RECURSIVE clear_parts(_, _)
clear_parts(x, parts) ==
    IF Len(parts) = 0 THEN x ELSE clear_parts(clear_part(x, Head(parts)), Tail(parts))

\* the slice taken one slot too far to the right
RightOf_mut(part) == SubSeq(PARSED_PARTS, IndexOf(part, PARSED_PARTS) + 2, Len(PARSED_PARTS))

\* PARSED_PARTS[index + 1:] for the 0-based index of part
RightOf(part) == SubSeq(PARSED_PARTS, IndexOf(part, PARSED_PARTS) + 1, Len(PARSED_PARTS))

\* the pre-release bumps of Version.bump, lines 186-188, in order; <<>> when
\* one of them raises
bump_pre(part, value) ==
    LET a == bump_part(part, "a", value)
        b == IF a = <<>> THEN <<>> ELSE bump_part(part, "b", a[1])
    IN  IF b = <<>> THEN <<>> ELSE bump_part(part, "rc", b[1])

\* the clearing without its guard
clears_after_bump_mut(part) == TRUE

\* `if part != "epoch":`, the guard of the clearing in Version.bump
clears_after_bump(part) == part # "epoch"

\* the integer parts without `self.minor = int(self.minor or 0)`
bump_ints_mut(self, part) ==
    [self EXCEPT
       !.epoch = OrZero(bump_int_part(part, "epoch", Some(self.epoch))),
       !.major = OrZero(bump_int_part(part, "major", Some(self.major))),
       !.minor = bump_int_part(part, "minor", self.minor),
       !.patch = bump_int_part(part, "patch", self.patch)]

\* lines 180-185 of Version.bump: the integer parts
bump_ints(self, part) ==
    LET minor1 == bump_int_part(part, "minor", self.minor)
    IN  [self EXCEPT
           !.epoch = OrZero(bump_int_part(part, "epoch", Some(self.epoch))),
           !.major = OrZero(bump_int_part(part, "major", Some(self.major))),
           !.minor = IF part = "patch" THEN Some(OrZero(minor1)) ELSE minor1,
           !.patch = bump_int_part(part, "patch", self.patch)]

\* lines 186-196 of Version.bump, given the outcome of the three tag bumps
\* (<<>>: int(...) raised; the fields assigned before the raise stay assigned)
bump_tags(s1, part, pre1, post1, dev1) ==
    IF pre1 = <<>>
    THEN [v |-> s1, err |-> IntError(SubSeq(s1.pre, Len(part) + 1, Len(s1.pre)))]
    ELSE IF post1 = <<>>
    THEN [v   |-> [s1 EXCEPT !.pre = pre1[1]],
          err |-> IntError(SubSeq(s1.post, Len(part) + 2, Len(s1.post)))]
    ELSE IF dev1 = <<>>
    THEN [v   |-> [s1 EXCEPT !.pre = pre1[1], !.post = post1[1]],
          err |-> IntError(SubSeq(s1.dev, Len(part) + 2, Len(s1.dev)))]
    ELSE [v   |-> IF clears_after_bump(part)
                  THEN clear_parts([s1 EXCEPT !.pre = pre1[1], !.post = post1[1],
                                              !.dev = dev1[1],
                                              !.local = bump_local(part, s1.local)],
                                   RightOf(part_to_parsed_part(part)))
                  ELSE [s1 EXCEPT !.pre = pre1[1], !.post = post1[1],
                                  !.dev = dev1[1],
                                  !.local = bump_local(part, s1.local)],
          err |-> NoError]

\* lines 180-196 of Version.bump, for a part of PARTS
bump_valid(s1, part) ==
    bump_tags(s1, part, bump_pre(part, s1.pre),
              bump_part(part, ".post", s1.post), bump_part(part, ".dev", s1.dev))

\* Version.bump: [v |-> the fields after the call, err |-> the exception]
bump(self, part) ==
    IF ~In(part, PARTS)
    THEN [v |-> self, err |-> ValueError("Invalid part value: " \o part)]
    ELSE bump_valid(bump_ints(self, part), part)

\* bump_release that keeps the local segment
bump_release_mut(self) ==
    [v |-> clear_parts(self, <<"pre", "post", "dev">>), err |-> NoError]

\* Version.bump_release
bump_release(self) ==
    [v |-> clear_parts(self, <<"pre", "post", "dev", "local">>), err |-> NoError]

\* the guard of set letting every alias through
settable_mut(part) == In(part, PARTS) \/ In(part, PRE_PARTS) \/ In(part, POST_PARTS)

\* `if part in Version.PARTS:`, the guard of Version.set
settable(part) == In(part, PARTS)

\* the part is reset before the value is converted
set_int_mut(self, part, value) ==
    LET n == PyInt(value)
        reset == IF part \in {"minor", "patch"}
                 THEN [self EXCEPT ![part] = Some(0)]
                 ELSE [self EXCEPT ![part] = 0]
    IN  IF n = <<>> THEN [v |-> reset, err |-> IntError(value)]
        ELSE IF part \in {"minor", "patch"}
             THEN [v |-> [self EXCEPT ![part] = n], err |-> NoError]
             ELSE [v |-> [self EXCEPT ![part] = n[1]], err |-> NoError]

\* `setattr(self, part, int(value))` of Version.set, for an integer part
set_int(self, part, value) ==
    LET n == PyInt(value)
    IN  IF n = <<>> THEN [v |-> self, err |-> IntError(value)]
        ELSE IF part \in {"minor", "patch"}
             THEN [v |-> [self EXCEPT ![part] = n], err |-> NoError]
             ELSE [v |-> [self EXCEPT ![part] = n[1]], err |-> NoError]

\* the clearing without its guard
set_clears_mut(clear_right) == TRUE

\* `if clear_right:`, the guard of the clearing in Version.set
set_clears(clear_right) == clear_right

\* Version.set
set(self, part, value, clear_right) ==
    IF ~settable(part) THEN [v |-> self, err |-> NoError]
    ELSE
    LET part1 == IF In(part, PRE_PARTS) THEN "pre"
                 ELSE IF In(part, POST_PARTS) THEN "post"
                 ELSE part
        r1 == IF In(part, PRE_PARTS)
              THEN [v |-> [self EXCEPT !.pre = pre_normalize(part \o value)], err |-> NoError]
              ELSE IF In(part, POST_PARTS)
              THEN [v |-> [self EXCEPT !.post = post_normalize(value)], err |-> NoError]
              ELSE IF part = "local"
              THEN [v |-> [self EXCEPT !.local = local_normalize(value)], err |-> NoError]
              ELSE IF part = "dev"
              THEN [v |-> [self EXCEPT !.dev = dev_normalize(value)], err |-> NoError]
              ELSE set_int(self, part, value)
    IN  IF r1.err # NoError THEN r1
        ELSE [v |-> IF set_clears(clear_right)
                    THEN clear_parts(r1.v, RightOf(part1))
                    ELSE r1.v,
              err |-> NoError]

-----------------------------------------------------------------------------
(* Input strings: an input is written from pieces, so that the same        *)
(* version can be written again with another spelling of one piece         *)

EmptySeg ==
    [lws |-> "", vp |-> "", epoch |-> "", release |-> "",
     preSep |-> "", preWord |-> "", preSep2 |-> "", preNum |-> "",
     postSep |-> "", postWord |-> "", postSep2 |-> "", postNum |-> "",
     dev |-> "", local |-> "", tws |-> ""]

Join(sg) ==
    sg.lws \o sg.vp \o sg.epoch \o sg.release
    \o sg.preSep \o sg.preWord \o sg.preSep2 \o sg.preNum
    \o sg.postSep \o sg.postWord \o sg.postSep2 \o sg.postNum
    \o sg.dev \o sg.local \o sg.tws

\* a version written in normal form
Plain(epoch, release, preWord, preNum, postNum, dev, local) ==
    [EmptySeg EXCEPT !.epoch = epoch, !.release = release,
                     !.preWord = preWord, !.preNum = preNum,
                     !.postSep = IF postNum = "" THEN "" ELSE ".",
                     !.postWord = IF postNum = "" THEN "" ELSE "post",
                     !.postNum = postNum, !.dev = dev, !.local = local]

\* the versions the mutating calls start from
MutSegs ==
    { Plain("", "1", "", "", "", "", ""),
      Plain("", "0.1", "", "", "", "", ""),
      Plain("", "1.2.3", "", "", "", "", ""),
      Plain("", "0.1.1", "a", "2", "1", ".dev2", "+foo0123"),
      Plain("1!", "2.0", "rc", "9", "", ".dev0", ""),
      Plain("", "1.0", "b", "1", "", "", "+19"),
      Plain("", "3", "", "", "9", "", "+a.b") }

\* the part names handed to bump
BumpParts ==
    {"epoch", "major", "minor", "patch", "a", "b", "rc", "post", "dev", "local",
     "c", "pre", "bogus"}

\* the part names handed to set
SetParts ==
    {"epoch", "major", "minor", "patch", "a", "b", "rc", "post", "dev", "local",
     "c", "alpha", "rev", "bogus"}

\* the values handed to set for a part: for the integer parts integer
\* strings (with a leading zero, with a sign) and strings int() refuses, for
\* the tag parts a number and a word, for local a value with separators and
\* capitals, for a name outside PARTS a number and a word
SetValues(part) ==
    IF In(part, INT_PARTS) THEN {"", "2", "07", "x", "-1"}
    ELSE IF part = "local" THEN {"", "2", "x", "A-b_1"}
    ELSE IF In(part, PARTS) THEN {"", "2", "07", "x"}
    ELSE {"2", "x"}

-----------------------------------------------------------------------------
(* The calls on one Version object                                         *)

Call(name, part, value, clear_right) ==
    [name |-> name, part |-> part, value |-> value, clear_right |-> clear_right]

NoSecond ==
    /\ wfrom = ""
    /\ winput = ""
    /\ w = NoVersion
    /\ werr = NoError

\* a [project] or [tool.poetry] table that is not in the file
NoTable == [absent |-> TRUE]

\* a table of the file; version: None when the table has no version key,
\* else the string of the key
Table(version) == [version |-> version]

\* the command line: the command, its arguments and its flags
Command(command, part, value, flags) ==
    [command |-> command, part |-> part, value |-> value, flags |-> flags]

\* what main did: the code it returned (None when an exception left it),
\* the exception that left it, the messages logged at level info and at
\* level error
Result(code, raised, out, errors) ==
    [code |-> code, raised |-> raised, out |-> out, errors |-> errors]

\* no file and no command line
NoCommand ==
    /\ doc = [project |-> NoTable, poetry |-> NoTable]
    /\ olddoc = doc
    /\ cmd = Command("", "", "", {})
    /\ result = Result(None, NoError, <<>>, <<>>)

\* v = Version(input) for a string the parser accepts
Init ==
    /\ seg \in MutSegs
    /\ input = Join(seg)
    /\ v = Version(input).v
    /\ err = NoError
    /\ op = Call("Version", "", "", FALSE)
    /\ old = NoVersion
    /\ steps = 0
    /\ NoSecond
    /\ NoCommand

\* the call r was made on v
Called(call, r) ==
    /\ v # NoVersion
    /\ steps < MaxSteps
    /\ old' = v
    /\ v' = r.v
    /\ err' = r.err
    /\ op' = call
    /\ steps' = steps + 1
    /\ UNCHANGED <<seg, input, wfrom, winput, w, werr>>
    /\ UNCHANGED cmdvars

\* v.bump(part)
Bump(part) == Called(Call("bump", part, "", FALSE), bump(v, part))

\* v.bump_release()
BumpRelease == Called(Call("bump_release", "", "", FALSE), bump_release(v))

\* v.set(part, value, clear_right)
Set(part, value, clear_right) ==
    Called(Call("set", part, value, clear_right), set(v, part, value, clear_right))

Next ==
    \/ \E part \in BumpParts : Bump(part)
    \/ BumpRelease
    \/ \E part \in SetParts, clear_right \in BOOLEAN :
          \E value \in SetValues(part) : Set(part, value, clear_right)

Spec == Init /\ [][Next]_vars

-----------------------------------------------------------------------------
(* The parser on its own: one string is parsed, then a second string made  *)
(* from the first is parsed                                                *)

\* whitespace, v prefix and separators around a short version
WsSegs ==
    [lws : {"", " ", "\t", "\n ", " \f"}, vp : {"", "v", "V", "vv", "v "},
     epoch : {""}, release : {"1.2"},
     preSep : {""}, preWord : {"", "RC"}, preSep2 : {""}, preNum : {""},
     postSep : {""}, postWord : {""}, postSep2 : {""}, postNum : {""},
     dev : {""}, local : {"", "+Ab"}, tws : {"", " ", "\r\n", "\t\f"}]

\* epoch, release and local segments, well-formed and not
ReleaseSegs ==
    [lws : {""}, vp : {""},
     epoch : {"", "0!", "1!", "02!", "!"},
     release : {"0", "1", "01", "1.2", "1.02", "1.2.3", "1.2.3.4", "10.0", "1.", "", "1..2", ".1"},
     preSep : {""}, preWord : {""}, preSep2 : {""}, preNum : {""},
     postSep : {""}, postWord : {""}, postSep2 : {""}, postNum : {""},
     dev : {""}, local : {"", "+abc", "+a-1_b", "+09", "+", "+a..b", "+1."}, tws : {""}]

\* every spelling of the pre-release segment
PreSegs ==
    [lws : {""}, vp : {""}, epoch : {""}, release : {"1.2", "3"},
     preSep : {"", ".", "-", "_"},
     preWord : {"a", "b", "c", "rc", "alpha", "beta", "pre", "preview", "x"},
     preSep2 : {"", ".", "-"}, preNum : {"", "1", "02", "10"},
     postSep : {""}, postWord : {"", "r"}, postSep2 : {""}, postNum : {""},
     dev : {""}, local : {""}, tws : {""}]

\* every spelling of the post-release segment
PostSegs ==
    [lws : {""}, vp : {""}, epoch : {""}, release : {"1.2.3"},
     preSep : {""}, preWord : {"", "a", "pre"}, preSep2 : {""}, preNum : {"", "2"},
     postSep : {"", ".", "-", "_"}, postWord : {"post", "rev", "r"},
     postSep2 : {"", ".", "_"}, postNum : {"", "1", "03"},
     dev : {"", "dev"}, local : {""}, tws : {""}]

\* the post-release written as -N
BarePostSegs ==
    [lws : {""}, vp : {"", "v"}, epoch : {""}, release : {"1", "1.2.3"},
     preSep : {""}, preWord : {"", "b"}, preSep2 : {""}, preNum : {"", "2"},
     postSep : {"-"}, postWord : {""}, postSep2 : {""}, postNum : {"", "1", "04"},
     dev : {"", ".dev1"}, local : {"", "+x"}, tws : {""}]

\* every spelling of the dev-release segment
DevSegs ==
    [lws : {""}, vp : {""}, epoch : {"", "1!"}, release : {"1.0"},
     preSep : {""}, preWord : {""}, preSep2 : {""}, preNum : {""},
     postSep : {"", "."}, postWord : {"", "post"}, postSep2 : {""}, postNum : {""},
     dev : {"dev", ".dev1", "-dev-02", "_dev.3", "dev_", ".dev.", "..dev", "DEV4", "dev1.0"},
     local : {"", "+9"}, tws : {"", "\n"}]

\* a piece is written the way the grammar reads it: a pre-release needs its
\* word, and a digit run after a pre-release without number is read as the
\* number of the pre-release, not as a post-release -N
WellWritten(sg) ==
    /\ (sg.preWord = "" => sg.preSep = "" /\ sg.preSep2 = "" /\ sg.preNum = "")
    /\ (sg.postWord = "" /\ sg.postSep = "" => sg.postSep2 = "" /\ sg.postNum = "")
    /\ (sg.postWord = "" /\ sg.postSep # "" /\ sg.postNum # "" =>
           sg.preWord = "" \/ sg.preNum # "")

ParseSegs ==
    { sg \in WsSegs \cup ReleaseSegs \cup PreSegs \cup PostSegs \cup BarePostSegs \cup DevSegs :
        WellWritten(sg) }

\* the strings a version is compared with
OtherInputs ==
    {"1", "2", "1.2", "2.1", "1.2.3", "1!1.2", "1.2a1", "1.2b1", "1.2rc10",
     "1.2.post1", "1.2.dev1", "1.2+abc", "1.2.0", "bogus", "1.2.3.", "v1.2.3."}

\* str.upper() on one character
UpperCh(c) ==
    IF c \in LowerSet
    THEN Ch(UpperAlpha, CHOOSE i \in 1..26 : Ch(LowerAlpha, i) = c)
    ELSE c

\* s with the case of every letter at a position p with p % 2 = r swapped
\* (r = 2: of every letter)
RECURSIVE SwapCase(_, _, _)
SwapCase(s, r, p) ==
    IF s = "" THEN ""
    ELSE LET c == Ch(s, 1)
             d == IF r = 2 \/ p % 2 = r
                  THEN (IF c \in LowerSet THEN UpperCh(c) ELSE LowerCh(c))
                  ELSE c
         IN  d \o SwapCase(Tail1(s), r, p + 1)

\* the normal spelling of a pre-release word
NormalPreWord(word) ==
    CASE word = "alpha" -> "a"
      [] word = "beta" -> "b"
      [] word \in {"c", "pre", "preview"} -> "rc"
      [] OTHER -> word

\* sg with the pre-release word in its normal spelling and the post-release
\* written .postN
Respelled(sg) ==
    [sg EXCEPT !.preWord = NormalPreWord(sg.preWord),
               !.postSep = IF sg.postWord # "" \/ sg.postNum # "" THEN "." ELSE @,
               !.postWord = IF sg.postWord # "" \/ sg.postNum # "" THEN "post" ELSE @]

InitParse ==
    /\ seg \in ParseSegs
    /\ input = Join(seg)
    /\ v = NoVersion
    /\ err = NoError
    /\ op = Call("", "", "", FALSE)
    /\ old = NoVersion
    /\ steps = 0
    /\ NoSecond
    /\ NoCommand

\* v = Version(input)
Construct ==
    /\ op.name = ""
    /\ LET r == Version(input)
       IN  v' = r.v /\ err' = r.err
    /\ op' = Call("Version", "", "", FALSE)
    /\ UNCHANGED <<seg, input, old, steps, wfrom, winput, w, werr>>
    /\ UNCHANGED cmdvars

\* w = Version(s), where s was made from the first string in the way `from`
Second(from, s) ==
    /\ op.name = "Version"
    /\ wfrom = ""
    /\ wfrom' = from
    /\ winput' = s
    /\ LET r == Version(s)
       IN  w' = r.v /\ werr' = r.err
    /\ UNCHANGED <<seg, input, v, err, op, old, steps>>
    /\ UNCHANGED cmdvars

\* w = Version(str(v))
Reparse == v # NoVersion /\ Second("str", str(v))

\* the same string with the case of letters changed
Recase(r) == Second("case", SwapCase(input, r, 1))

\* the same string with one more whitespace character in front or behind
Pad(c, front) == Second("pad", IF front THEN c \o input ELSE input \o c)

\* the same string with one more v in front
PrefixV == Second("v", "v" \o input)

\* the same string with the normal spelling of pre- and post-release
Respell == Respelled(seg) # seg /\ Second("respell", Join(Respelled(seg)))

\* any other string
Other(s) == Second("other", s)

NextParse ==
    \/ Construct
    \/ Reparse
    \/ \E r \in 0..2 : Recase(r)
    \/ \E c \in Whitespace, front \in BOOLEAN : Pad(c, front)
    \/ PrefixV
    \/ Respell
    \/ \E s \in OtherInputs : Other(s)

SpecParse == InitParse /\ [][NextParse]_vars

-----------------------------------------------------------------------------
(* The commands on a pyproject.toml file.  The file is the record of its   *)
(* [project] and [tool.poetry] tables; a table is NoTable or the value of  *)
(* its version key.  tomlkit keeps everything else of the file as it is.   *)

\* the number of command lines run on one file
MaxCommands == 1

\* the exception of a method call on None
AttributeError(name) ==
    [type |-> "AttributeError",
     msg  |-> "'NoneType' object has no attribute '" \o name \o "'"]

\* the table the loops of PyProject walk to for a dotted key
TableOf(d, key) == IF key = "project.version" THEN d.project ELSE d.poetry

\* `Version(field)` in PyProject.load_version, r being its outcome
Loaded(r) ==
    IF r.err # NoError
    THEN [val |-> None, err |-> r.err]
    ELSE [val |-> Some(r.v), err |-> NoError]

\* one round of the loop of PyProject.load_version: the optional Version
\* of the key in the table, or the exception
load_key(table) ==
    IF table = NoTable THEN [val |-> None, err |-> AttributeError("get")]
    ELSE IF table.version = None THEN [val |-> None, err |-> NoError]
    ELSE Loaded(Version(table.version[1]))

RECURSIVE PyProject_load_version(_, _)

\* versions.append(...) for the rest of the keys
load_append(val, r) ==
    IF r.err # NoError THEN r ELSE [vals |-> <<val>> \o r.vals, err |-> NoError]

\* the loop of PyProject.load_version after the first key gave h
load_next(h, d, keys) ==
    IF h.err # NoError
    THEN [vals |-> <<>>, err |-> h.err]
    ELSE load_append(h.val, PyProject_load_version(d, keys))

\* PyProject.load_version: the list of optional Versions, or the exception
PyProject_load_version(d, keys) ==
    IF keys = <<>>
    THEN [vals |-> <<>>, err |-> NoError]
    ELSE load_next(load_key(TableOf(d, Head(keys))), d, Tail(keys))

\* field.update({"version": s}) on the table of the key
update_key(d, key, s) ==
    IF key = "project.version"
    THEN [d EXCEPT !.project = Table(Some(s))]
    ELSE [d EXCEPT !.poetry = Table(Some(s))]

\* the loop of PyProject.save_version: the document after the updates, or
\* the exception
RECURSIVE updated(_, _, _)
updated(d, keys, s) ==
    IF keys = <<>> THEN [doc |-> d, err |-> NoError]
    ELSE IF TableOf(d, Head(keys)) = NoTable
    THEN [doc |-> d, err |-> AttributeError("update")]
    ELSE updated(update_key(d, Head(keys), s), Tail(keys), s)

\* the temporary file is written and renamed only after the loop
written(d, u) == IF u.err # NoError THEN [doc |-> d, err |-> u.err] ELSE u

\* PyProject.save_version: the file afterwards, and the exception
PyProject_save_version(d, keys, version) ==
    written(d, updated(d, keys, str(version)))

\* both keys whatever was loaded
save_keys_mut(vals) == <<"project.version", "tool.poetry.version">>

\* the keys __save_version writes
save_keys(vals) ==
    IF vals[1] # None
    THEN <<"project.version", "tool.poetry.version">>
    ELSE <<"project.version">>

\* __save_version after its load_version gave l
save_loaded(d, l, version) ==
    IF l.err # NoError
    THEN [doc |-> d, err |-> l.err]
    ELSE PyProject_save_version(d, save_keys(l.vals), version)

\* commands.__save_version
save_version(d, version) ==
    save_loaded(d, PyProject_load_version(d, <<"tool.poetry.version">>), version)

\* commands.__sanity_check_loaded_versions; None != version is True
sanity_check_loaded_versions(project_version, poetry_version) ==
    IF /\ poetry_version # None
       /\ (project_version = None \/ ~eq(project_version[1], poetry_version[1]))
    THEN [val |-> None,
          err |-> ValueError("project.version "
                             \o (IF project_version = None THEN "None"
                                 ELSE str(project_version[1]))
                             \o " does not match tool.poetry.version "
                             \o str(poetry_version[1]))]
    ELSE [val |-> project_version, err |-> NoError]

\* __load_version after its load_version gave l
load_checked(l) ==
    IF l.err # NoError
    THEN [val |-> None, err |-> l.err]
    ELSE sanity_check_loaded_versions(l.vals[1], l.vals[2])

\* commands.__load_version
load_version(d) ==
    load_checked(PyProject_load_version(d, <<"project.version", "tool.poetry.version">>))

\* sep.join(strs)
RECURSIVE join(_, _)
join(sep, strs) ==
    IF strs = <<>> THEN ""
    ELSE IF Len(strs) = 1 THEN strs[1]
    ELSE strs[1] \o sep \o join(sep, Tail(strs))

\* one entry of json.dumps of a dict of strings that need no escapes
json_item(e) == "\"" \o e.key \o "\": \"" \o e.value \o "\""

\* commands.__output: the messages logged at level info
output(flags, versions) ==
    IF "json" \in flags
    THEN << "{" \o join(", ", [i \in 1..Len(versions) |-> json_item(versions[i])]) \o "}" >>
    ELSE IF "text" \in flags
    THEN << join("\n", [i \in 1..Len(versions) |-> versions[i].value]) >>
    ELSE [i \in 1..Len(versions) |-> versions[i].key \o ": " \o versions[i].value]

\* what a command did: the file afterwards, the exception, the messages
Outcome(d, e, out) == [doc |-> d, err |-> e, out |-> out]

\* the end of a command, s being the outcome of its __save_version
saved(d, s, out) ==
    IF s.err # NoError THEN Outcome(d, s.err, <<>>) ELSE Outcome(s.doc, NoError, out)

\* version_command after Version(settings.value) gave r
version_parsed(d, c, r) ==
    IF r.err # NoError THEN Outcome(d, r.err, <<>>)
    ELSE saved(d, save_version(d, r.v),
               IF "silent" \in c.flags THEN <<>>
               ELSE output(c.flags, <<[key |-> "version", value |-> c.value]>>))

\* commands.version_command
version_command(d, c) == version_parsed(d, c, Version(c.value))

\* the ValueError of a command that found no version
Unable ==
    ValueError("Unable to extract neither project.version nor tool.poetry.version "
               \o " from pyproject.toml")

\* the last two lines of bump_command, release_command and set_command, m
\* being the outcome of the call on the loaded version
mutated(d, c, m) ==
    IF m.err # NoError THEN Outcome(d, m.err, <<>>)
    ELSE saved(d, save_version(d, m.v),
               output(c.flags, <<[key |-> "version", value |-> str(m.v)]>>))

\* bump_command after __load_version gave l
bump_loaded(d, c, l) ==
    IF l.err # NoError THEN Outcome(d, l.err, <<>>)
    ELSE IF l.val = None THEN Outcome(d, Unable, <<>>)
    ELSE mutated(d, c, bump(l.val[1], c.part))

\* commands.bump_command
bump_command(d, c) == bump_loaded(d, c, load_version(d))

\* release_command after __load_version gave l
release_loaded(d, c, l) ==
    IF l.err # NoError THEN Outcome(d, l.err, <<>>)
    ELSE IF l.val = None THEN Outcome(d, Unable, <<>>)
    ELSE mutated(d, c, bump_release(l.val[1]))

\* commands.release_command
release_command(d, c) == release_loaded(d, c, load_version(d))

\* set_command after __load_version gave l
set_loaded(d, c, l) ==
    IF l.err # NoError THEN Outcome(d, l.err, <<>>)
    ELSE IF l.val = None THEN Outcome(d, Unable, <<>>)
    ELSE mutated(d, c, set(l.val[1], c.part, c.value, "clear_right" \in c.flags))

\* commands.set_command
set_command(d, c) == set_loaded(d, c, load_version(d))

\* the keys get_command asks for
get_keys(flags) ==
    (IF "project" \in flags THEN <<"project.version">> ELSE <<>>)
    \o (IF "poetry" \in flags THEN <<"tool.poetry.version">> ELSE <<>>)

\* get_command after load_version gave l for the keys
get_loaded(d, c, keys, l) ==
    IF l.err # NoError THEN Outcome(d, l.err, <<>>)
    ELSE Outcome(d, NoError,
                 output(c.flags,
                        [i \in 1..Len(keys) |->
                            [key   |-> keys[i],
                             value |-> IF l.vals[i] = None THEN "None"
                                       ELSE str(l.vals[i][1])]]))

\* commands.get_command
get_command(d, c) ==
    get_loaded(d, c, get_keys(c.flags), PyProject_load_version(d, get_keys(c.flags)))

\* Settings.validate_arguments
validate_arguments(c) ==
    IF c.command = "get" /\ "project" \notin c.flags /\ "poetry" \notin c.flags
    THEN [c EXCEPT !.flags = @ \cup {"project", "poetry"}]
    ELSE c

\* commands[settings.command](settings)
commands(d, c) ==
    CASE c.command = "set" -> set_command(d, c)
      [] c.command = "get" -> get_command(d, c)
      [] c.command = "bump" -> bump_command(d, c)
      [] c.command = "release" -> release_command(d, c)
      [] c.command = "version" -> version_command(d, c)

\* main without its except clause
returned_mut(o) ==
    IF o.err = NoError
    THEN [doc |-> o.doc, result |-> Result(Some(0), NoError, o.out, <<>>)]
    ELSE [doc |-> o.doc, result |-> Result(None, o.err, o.out, <<>>)]

\* the try statement of main: 0, or 1 after a ValueError, which is logged;
\* any other exception leaves main
returned(o) ==
    IF o.err = NoError
    THEN [doc |-> o.doc, result |-> Result(Some(0), NoError, o.out, <<>>)]
    ELSE IF o.err.type = "ValueError"
    THEN [doc |-> o.doc, result |-> Result(Some(1), NoError, o.out, <<o.err.msg>>)]
    ELSE [doc |-> o.doc, result |-> Result(None, o.err, o.out, <<>>)]

\* main(args) for a command line that argparse accepts
main(d, c) == returned(commands(d, validate_arguments(c)))

\* the version strings a file holds at the start: canonical, written
\* another way, and one that `set a x` wrote
FileVersions == {"1.2.3", "2.3.4", "V1.2.3-RC1", "1.2.3ax0"}

\* the tables a file has at the start
Tables == {NoTable, Table(None)} \cup { Table(Some(s)) : s \in FileVersions }

\* the output flags of a command line
FormatFlags == {{}, {"text"}, {"json", "text"}}

\* the values handed to the version command
VersionValues == {"", "1.2.3", " V2.0-Alpha.1 ", "bogus"}

\* the part and the value handed to the set command
SetArguments ==
    { <<"epoch", "2">>, <<"major", "x">>, <<"minor", "2">>, <<"patch", "x">>,
      <<"a", "2">>, <<"b", "x">>, <<"rc", "">>, <<"post", "2">>, <<"dev", "x">>,
      <<"local", "A-b_1">> }

InitCmd ==
    /\ seg = EmptySeg
    /\ input = ""
    /\ v = NoVersion
    /\ err = NoError
    /\ op = Call("", "", "", FALSE)
    /\ old = NoVersion
    /\ steps = 0
    /\ NoSecond
    /\ doc \in [project : Tables, poetry : Tables]
    /\ olddoc = doc
    /\ cmd = Command("", "", "", {})
    /\ result = Result(None, NoError, <<>>, <<>>)

\* main is run with the command line c
Run(c, r) ==
    /\ steps < MaxCommands
    /\ olddoc' = doc
    /\ doc' = r.doc
    /\ result' = r.result
    /\ cmd' = c
    /\ steps' = steps + 1
    /\ UNCHANGED <<seg, input, v, err, op, old, wfrom, winput, w, werr>>

\* version VALUE [--json] [--text] [--silent]
VersionCmd(value, flags) ==
    Run(Command("version", "", value, flags), main(doc, Command("version", "", value, flags)))

\* bump PART [--json] [--text]
BumpCmd(part, flags) ==
    Run(Command("bump", part, "", flags), main(doc, Command("bump", part, "", flags)))

\* release [--json] [--text]
ReleaseCmd(flags) ==
    Run(Command("release", "", "", flags), main(doc, Command("release", "", "", flags)))

\* set PART VALUE [--clear_right] [--json] [--text]
SetCmd(part, value, flags) ==
    Run(Command("set", part, value, flags), main(doc, Command("set", part, value, flags)))

\* get [--project] [--poetry] [--json] [--text]
GetCmd(flags) ==
    Run(Command("get", "", "", flags), main(doc, Command("get", "", "", flags)))

NextCmd ==
    \/ \E value \in VersionValues, flags \in FormatFlags, silent \in SUBSET {"silent"} :
          VersionCmd(value, flags \cup silent)
    \/ \E i \in 1..Len(PARTS), flags \in FormatFlags : BumpCmd(PARTS[i], flags)
    \/ \E flags \in FormatFlags : ReleaseCmd(flags)
    \/ \E a \in SetArguments, flags \in FormatFlags, clear \in SUBSET {"clear_right"} :
          SetCmd(a[1], a[2], flags \cup clear)
    \/ \E flags \in FormatFlags, which \in SUBSET {"project", "poetry"} :
          GetCmd(flags \cup which)

SpecCmd == InitCmd /\ [][NextCmd]_vars

-----------------------------------------------------------------------------
(* Properties                                                              *)

\* the slots in the order the properties speak of
Slots == <<"epoch", "major", "minor", "patch", "pre", "post", "dev", "local">>

\* the slot a part name of PARTS stands for
SlotOf(part) == IF part \in {"a", "b", "rc"} THEN "pre" ELSE part

\* the slots strictly to the right of the slot of part
SlotsAfter(part) == { Slots[i] : i \in (IndexOf(SlotOf(part), Slots) + 1)..Len(Slots) }

\* slot f of after is slot f of before, reset
IsReset(before, after, f) ==
    IF f \in {"minor", "patch"}
    THEN after[f] = (IF before[f] = None THEN None ELSE Some(0))
    ELSE after[f] = ""

\* s is written in the version grammar: lowercased, it matches the pattern
GrammarValid(s) == RegexMatch(MapLower(s)) # <<>>

\* s is an optional sign followed by decimal digits
IsIntegerString(s) ==
    LET body == IF s # "" /\ Ch(s, 1) \in {"+", "-"} THEN Tail1(s) ELSE s
    IN  body # "" /\ AllDigits(body)

\* C1: when the parser accepts a string, it accepts the rendering of the
\* parsed version too and the version parsed from the rendering is equal
\* (==) to the first one.
C1_RoundTrip ==
    (wfrom = "str") => (w # NoVersion /\ eq(w, v))

C1_Witness ==
    /\ wfrom = "str"
    /\ w # NoVersion
    /\ seg.preWord = "preview"
    /\ seg.preNum = "02"
    /\ winput # input

\* C2: of two parsed versions a and b exactly one of a < b, a == b, b < a
\* holds.
C2_TotalOrder ==
    (wfrom # "" /\ v # NoVersion /\ w # NoVersion) =>
        LET a == lt(v, w)
            b == eq(v, w)
            c == lt(w, v)
        IN  (a /\ ~b /\ ~c) \/ (~a /\ b /\ ~c) \/ (~a /\ ~b /\ c)

\* C3: a bump of any part of PARTS on a parsed version gives a version that
\* compares strictly greater than the version before the bump.
C3_MonotonicBump ==
    (op.name = "bump" /\ steps = 1 /\ In(op.part, PARTS)) =>
        (err = NoError /\ gt(v, old))

\* C4: after bump(p) with p other than epoch every slot strictly to the
\* right of p's slot is reset: a present minor or patch is 0, an absent one
\* stays absent, and pre, post, dev, local are the empty string.
C4_BumpClearsRight ==
    (op.name = "bump" /\ In(op.part, PARTS) /\ op.part # "epoch" /\ err = NoError) =>
        \A f \in SlotsAfter(op.part) : IsReset(old, v, f)

C4_Witness ==
    /\ op.name = "bump"
    /\ op.part = "minor"
    /\ err = NoError
    /\ old.patch = Some(1)
    /\ old.pre # "" /\ old.post # "" /\ old.dev # "" /\ old.local # ""

\* C5: bump("epoch") adds exactly 1 to epoch and leaves the other seven
\* fields as they were, also when it follows another bump of the epoch.
C5_EpochBump ==
    (op.name = "bump" /\ op.part = "epoch") =>
        (err = NoError /\ v = [old EXCEPT !.epoch = old.epoch + 1])

C5_Witness ==
    /\ op.name = "bump"
    /\ op.part = "epoch"
    /\ steps = 2
    /\ seg.epoch = ""
    /\ v.epoch = 2
    /\ v.patch # None /\ v.pre # "" /\ v.post # "" /\ v.dev # "" /\ v.local # ""

\* C6: bump with a part outside PARTS raises, set on epoch, major, minor or
\* patch with a value that is not an integer string raises, and in both
\* cases the eight fields are what they were before the call.
C6_NoPartialMutation ==
    /\ (op.name = "bump" /\ ~In(op.part, PARTS)) => (err # NoError /\ v = old)
    /\ (op.name = "set" /\ In(op.part, INT_PARTS) /\ ~IsIntegerString(op.value)) =>
           (err # NoError /\ v = old)

C6_Witness ==
    /\ op.name = "set"
    /\ op.part = "minor"
    /\ op.value = "x"
    /\ op.clear_right
    /\ err # NoError
    /\ old.minor = Some(1)
    /\ old.local # ""

\* C7: set with a part name outside PARTS raises nothing and leaves every
\* field as it was, for every value and also with clear_right.
C7_SetUnknownPart ==
    (op.name = "set" /\ ~In(op.part, PARTS)) => (err = NoError /\ v = old)

C7_Witness ==
    /\ op.name = "set"
    /\ op.part = "alpha"
    /\ op.value = "2"
    /\ op.clear_right
    /\ v.post # "" /\ v.local # ""

\* C8: for a string s written in the version grammar, s with the case of
\* letters changed, s with one more whitespace character in front or
\* behind, and s with a v put in front all parse to a version equal to the
\* one parsed from s.
C8_Insensitive ==
    (wfrom \in {"case", "pad", "v"} /\ GrammarValid(input)) =>
        (v # NoVersion /\ w # NoVersion /\ eq(v, w))

C8_Witness ==
    /\ wfrom = "case"
    /\ GrammarValid(input)
    /\ seg.vp = "V"
    /\ seg.local = "+Ab"
    /\ seg.lws = " \f"
    /\ w # NoVersion

\* C9: a string that starts with two or more v characters followed by a
\* version is rejected with the invalid-version error.
C9_SecondVRejected ==
    (op.name = "Version" /\ startswith(MapLower(input), "vv")) =>
        (v = NoVersion /\ startswith(err.msg, "Invalid version string"))

Contains(s, sub) ==
    \E i \in 1..(Len(s) - Len(sub) + 1) : SubSeq(s, i, i + Len(sub) - 1) = sub

\* C11: parsing a string that is not written in the version grammar gives no
\* Version and raises an error whose message contains the string lowercased
\* and with the whitespace around it removed.
C11_InvalidRejected ==
    /\ (op.name = "Version" /\ ~GrammarValid(input)) =>
           /\ v = NoVersion
           /\ err # NoError
           /\ Contains(err.msg, strip(MapLower(input), Whitespace))
    /\ (wfrom # "" /\ ~GrammarValid(winput)) =>
           /\ w = NoVersion
           /\ werr # NoError
           /\ Contains(werr.msg, strip(MapLower(winput), Whitespace))

\* the kind of the error bump raises for a part outside PARTS
BumpErrorKind == bump(Version("1").v, "bogus").err.type

\* the kind of the error set raises for an integer part and a value that is
\* no integer
SetErrorKind == set(Version("1").v, "major", "x", FALSE).err.type

\* C12: the error the parser raises on a malformed string is of another kind
\* than the error of bump for an invalid part and than the conversion error
\* of set for a value that is no integer.
C12_DistinctErrorKind ==
    /\ (op.name = "Version" /\ v = NoVersion) =>
           (err.type # BumpErrorKind /\ err.type # SetErrorKind)
    /\ (wfrom # "" /\ w = NoVersion) =>
           (werr.type # BumpErrorKind /\ werr.type # SetErrorKind)

\* C13: bump_release makes pre, post, dev and local the empty string and
\* leaves epoch, major, minor and patch as they were, in every reachable
\* state; a second bump_release renders the same string as the first.
C13_BumpRelease ==
    (op.name = "bump_release") =>
        /\ err = NoError
        /\ v = [old EXCEPT !.pre = "", !.post = "", !.dev = "", !.local = ""]
        /\ str(bump_release(v).v) = str(v)

C13_Witness ==
    /\ op.name = "bump_release"
    /\ steps = 2
    /\ old.epoch > 0 /\ old.patch # None
    /\ old.pre # "" /\ old.post # "" /\ old.dev # "" /\ old.local # ""
    /\ str(v) = "1!0.1.1"

\* C14: a successful set(part, value, clear_right = True) with part in PARTS
\* stores the value in the slot of the part and resets every slot strictly
\* to its right (a present minor or patch to 0, an absent one stays absent,
\* pre, post, dev, local to the empty string), except major, which the
\* clearing never changes, also when the part is epoch.
C14_SetClearsRight ==
    (op.name = "set" /\ In(op.part, PARTS) /\ op.clear_right /\ err = NoError) =>
        /\ v[SlotOf(op.part)] = set(old, op.part, op.value, FALSE).v[SlotOf(op.part)]
        /\ \A f \in SlotsAfter(op.part) \ {"major"} : IsReset(old, v, f)
        /\ op.part # "major" => v.major = old.major

C14_Witness ==
    /\ op.name = "set"
    /\ op.part = "epoch"
    /\ op.value = "2"
    /\ op.clear_right
    /\ err = NoError
    /\ old.major > 0 /\ old.minor = Some(0) /\ old.patch = None
    /\ old.pre # "" /\ old.dev # ""
    /\ v.epoch = 2

\* C15: set(part, value) without clear_right and with part in PARTS changes
\* only the slot of the part (pre for a, b, rc); the other seven fields keep
\* their values.
C15_SetFrame ==
    (op.name = "set" /\ In(op.part, PARTS) /\ ~op.clear_right) =>
        \A f \in { Slots[i] : i \in 1..Len(Slots) } \ {SlotOf(op.part)} : v[f] = old[f]

C15_Witness ==
    /\ op.name = "set"
    /\ op.part = "b"
    /\ op.value = "2"
    /\ ~op.clear_right
    /\ err = NoError
    /\ old.pre = "a2"
    /\ v.pre = "b2"
    /\ v.patch # None /\ v.post # "" /\ v.dev # "" /\ v.local # ""

\* C16: in every state reached from a parsed version by bump, bump_release
\* and set calls the rendering str(v) is lowercase, does not start with v
\* and has no whitespace at either end.
C16_CanonicalString ==
    (v # NoVersion) =>
        /\ str(v) = MapLower(str(v))
        /\ ~startswith(str(v), "v")
        /\ strip(str(v), Whitespace) = str(v)

\* s is the tag followed by a decimal number
IsTagNumber(s, tag) ==
    /\ startswith(s, tag)
    /\ Len(s) > Len(tag)
    /\ AllDigits(SubSeq(s, Len(tag) + 1, Len(s)))

\* C17: in every state reached from a parsed version by bump, bump_release
\* and set calls epoch is at least 0, pre is empty or a, b or rc followed by
\* a decimal number, post is empty or .post followed by a decimal number and
\* dev is empty or .dev followed by a decimal number.
C17_FieldShapes ==
    (v # NoVersion) =>
        /\ v.epoch >= 0
        /\ v.pre = "" \/ \E tag \in {"a", "b", "rc"} : IsTagNumber(v.pre, tag)
        /\ v.post = "" \/ IsTagNumber(v.post, ".post")
        /\ v.dev = "" \/ IsTagNumber(v.dev, ".dev")

\* the tag bump(part) writes for a tag part: a, b, rc, .post, .dev
TagOf(part) == IF part \in {"post", "dev"} THEN "." \o part ELSE part

\* C20: bump of a, b, rc, post or dev raises nothing; when the slot of the
\* part starts with the tag of the part, the number after the tag is one
\* larger afterwards, otherwise the slot is the tag followed by 1.
C20_TagBump ==
    (op.name = "bump" /\ op.part \in {"a", "b", "rc", "post", "dev"}) =>
        LET slot == SlotOf(op.part)
            tag  == TagOf(op.part)
            rest == SubSeq(old[slot], Len(tag) + 1, Len(old[slot]))
        IN  /\ err = NoError
            /\ IF startswith(old[slot], tag)
               THEN /\ IsTagNumber(old[slot], tag)
                    /\ v[slot] = tag \o NatToStr(DecValue(rest) + 1)
               ELSE v[slot] = tag \o "1"

\* the commands that write the file
Writing == {"version", "bump", "set", "release"}

\* the table holds a version string the parser accepts
HoldsVersion(table) ==
    /\ table # NoTable
    /\ table.version # None
    /\ Version(table.version[1]).err = NoError

\* the file d holds a project.version and no other tool.poetry.version, so
\* that bump, set and release find their version
Loadable(d) ==
    /\ HoldsVersion(d.project)
    /\ d.poetry # NoTable
    /\ d.poetry.version # None =>
          /\ HoldsVersion(d.poetry)
          /\ eq(Version(d.poetry.version[1]).v, Version(d.project.version[1]).v)

\* C18: when a version, bump, set or release command fails with a value
\* error, main returns 1 and the file is what it was before the command;
\* an invalid version string, a set value that is no integer, a missing
\* project.version and a tool.poetry.version other than project.version are
\* such failures.
C18_ValueErrorExit ==
    (cmd.command \in Writing) =>
        /\ commands(olddoc, cmd).err.type = "ValueError" =>
               (result.code = Some(1) /\ doc = olddoc)
        /\ (cmd.command = "version" /\ Version(cmd.value).err # NoError) =>
               (result.code = Some(1) /\ doc = olddoc)
        /\ (/\ cmd.command # "version"
            /\ olddoc.project # NoTable /\ olddoc.poetry # NoTable
            /\ ~Loadable(olddoc)) =>
               (result.code = Some(1) /\ doc = olddoc)
        /\ (/\ cmd.command = "set" /\ Loadable(olddoc)
            /\ In(cmd.part, INT_PARTS) /\ ~IsIntegerString(cmd.value)) =>
               (result.code = Some(1) /\ doc = olddoc)

C18_Witness ==
    /\ cmd.command = "set"
    /\ cmd.part = "major"
    /\ cmd.value = "x"
    /\ olddoc.project = Table(Some("V1.2.3-RC1"))
    /\ olddoc.poetry = Table(Some("V1.2.3-RC1"))
    /\ result.code = Some(1)
    /\ result.errors = <<"invalid literal for int() with base 10: 'x'">>
    /\ doc = olddoc

\* the version object a successful writing command c saves for the file d
NewVersion(d, c) ==
    CASE c.command = "version" -> Version(c.value).v
      [] c.command = "bump" -> bump(Version(d.project.version[1]).v, c.part).v
      [] c.command = "release" -> bump_release(Version(d.project.version[1]).v).v
      [] c.command = "set" ->
            set(Version(d.project.version[1]).v, c.part, c.value,
                "clear_right" \in c.flags).v

\* C19: after a successful version, bump, set or release command
\* project.version is the rendering of the new version; tool.poetry.version
\* is the same string if the key was there before the command, and is not
\* made if it was not.
C19_SavedVersion ==
    (cmd.command \in Writing /\ result.code = Some(0)) =>
        /\ doc.project = Table(Some(str(NewVersion(olddoc, cmd))))
        /\ olddoc.poetry # NoTable
        /\ doc.poetry = (IF olddoc.poetry.version # None THEN doc.project
                         ELSE olddoc.poetry)

C19_Witness ==
    /\ cmd.command = "version"
    /\ cmd.value = " V2.0-Alpha.1 "
    /\ olddoc.project = Table(None)
    /\ olddoc.poetry = Table(Some("2.3.4"))
    /\ result.code = Some(0)
    /\ doc.project = Table(Some("2.0a1"))
    /\ doc.poetry = Table(Some("2.0a1"))

\* C21: bump("minor") and bump("patch") take an absent field as 0 and add
\* 1, so the bumped field is a present integer afterwards; bump("patch")
\* makes an absent minor an explicit 0, and bumping patch on 1 renders
\* 1.0.1.
C21_IntegerBump ==
    (op.name = "bump" /\ op.part \in {"minor", "patch"}) =>
        /\ err = NoError
        /\ v[op.part] = Some(OrZero(old[op.part]) + 1)
        /\ (op.part = "patch") => (v.minor = Some(OrZero(old.minor)))
        /\ (op.part = "patch" /\ str(old) = "1") => (str(v) = "1.0.1")

C21_Witness ==
    /\ op.name = "bump"
    /\ op.part = "patch"
    /\ input = "1"
    /\ steps = 1
    /\ old.minor = None /\ old.patch = None
    /\ str(v) = "1.0.1"

\* the length of the maximal run of digits s ends in
TrailingDigits(s) == DigitRunBack(s, Len(s))

\* C22: when local ends in a run of digits, bump("local") leaves the
\* characters before the maximal trailing run as they were and makes the
\* integer value of the run one larger; when local does not end in a
\* digit, 1 is appended.
C22_LocalBump ==
    (op.name = "bump" /\ op.part = "local" /\ err = NoError) =>
        LET n    == TrailingDigits(old.local)
            head == SubSeq(old.local, 1, Len(old.local) - n)
            run  == SubSeq(old.local, Len(old.local) - n + 1, Len(old.local))
            rest == SubSeq(v.local, Len(head) + 1, Len(v.local))
        IN  IF n = 0 THEN v.local = old.local \o "1"
            ELSE /\ startswith(v.local, head)
                 /\ rest # "" /\ AllDigits(rest)
                 /\ DecValue(rest) = DecValue(run) + 1

\* C23: set with a part that is any pre-release alias (a, b, c, rc, alpha,
\* beta, pre, preview) stores into pre the pre-release normalization of
\* the alias followed by the value.
C23_SetPreAlias ==
    (op.name = "set" /\ In(op.part, PRE_PARTS)) =>
        (err = NoError /\ v.pre = pre_normalize(op.part \o op.value))

\* s is a word of lowercase letters that no normalizer rewrites
IsWord(s) == s # "" /\ \A i \in 1..Len(s) : Ch(s, i) \in (LowerSet \ {"r"})

\* C24: set on post, dev or local normalizes the value alone: a bare
\* number N gives .postN / .devN, a value without a number gets 0
\* appended, - and _ in a local value become ., and an empty value clears
\* the slot to the empty string; set on a, b or rc with an empty value
\* stores the tag followed by 0.
C24_SetTagValue ==
    (op.name = "set") =>
        /\ (op.part \in {"post", "dev", "local"}) =>
               /\ err = NoError
               /\ (op.value = "") => (v[op.part] = "")
        /\ (op.part \in {"post", "dev"} /\ op.value # "" /\ AllDigits(op.value)) =>
               (v[op.part] = "." \o op.part \o NatToStr(DecValue(op.value)))
        /\ (op.part \in {"post", "dev"} /\ IsWord(op.value)) =>
               (v[op.part] = "." \o op.value \o "0")
        /\ (op.part = "local") =>
               (v.local = replace(replace(op.value, "-", "."), "_", "."))
        /\ (op.part \in {"a", "b", "rc"} /\ op.value = "") =>
               (err = NoError /\ v.pre = op.part \o "0")

C24_Witness ==
    /\ op.name = "set"
    /\ op.part = "dev"
    /\ op.value = "x"
    /\ old.dev = ".dev2"
    /\ v.dev = ".x0"
    /\ v.post = old.post /\ old.post # ""

\* field f of a is less than field f of b under the rule of the field
FieldLess(a, b, f) ==
    IF f \in {"epoch", "major"} THEN a[f] < b[f]
    ELSE IF f \in {"minor", "patch"}
    THEN \/ a[f] = None /\ b[f] # None
         \/ a[f] # None /\ b[f] # None /\ a[f][1] < b[f][1]
    ELSE StrLt(a[f], b[f])

\* C25: a < b is true exactly when at least one of the eight fields of a
\* is less than that field of b under the field's rule (integers for epoch
\* and major, optional integers with absent below present for minor and
\* patch, strings for pre, post, dev, local); checked in both directions
\* on a version and the version a call made of it.
C25_LessThan ==
    (old # NoVersion /\ v # NoVersion) =>
        /\ lt(old, v) <=> (\E i \in 1..Len(Slots) : FieldLess(old, v, Slots[i]))
        /\ lt(v, old) <=> (\E i \in 1..Len(Slots) : FieldLess(v, old, Slots[i]))

C25_Witness ==
    /\ op.name = "bump"
    /\ op.part = "major"
    /\ old.major < v.major
    /\ old.minor = Some(2) /\ v.minor = Some(0)
    /\ lt(v, old)
    /\ lt(old, v)

\* C26: for every successful version, bump, set or release command that
\* reports a version, the reported version string is the string the
\* command wrote to project.version.
C26_ReportsWritten ==
    (cmd.command \in Writing /\ result.code = Some(0) /\ result.out # <<>>) =>
        /\ doc.project # NoTable
        /\ doc.project.version # None
        /\ result.out = output(cmd.flags, <<[key |-> "version", value |-> doc.project.version[1]]>>)

\* the parser accepts str(x) and gives the eight fields of x back
RoundTrips(x) ==
    /\ Version(str(x)).err = NoError
    /\ Version(str(x)).v = x

\* C27: a bump with a part of PARTS or a bump_release on a version that is
\* what the parser gives for its own rendering (a parsed version, or one
\* reached from it by such calls) raises nothing and gives a version whose
\* rendering the parser accepts and parses to the same eight fields.
C27_BumpRoundTrip ==
    (/\ op.name \in {"bump", "bump_release"}
     /\ (op.name = "bump") => In(op.part, PARTS)
     /\ RoundTrips(old)) =>
        (err = NoError /\ RoundTrips(v))

C27_Witness ==
    /\ op.name = "bump"
    /\ op.part = "dev"
    /\ steps = 2
    /\ RoundTrips(old)
    /\ old.dev = ".dev3"
    /\ v.dev = ".dev4"
    /\ v.pre = "a2" /\ v.post = ".post1"

\* C28: in every state reachable from a parsed version by bump,
\* bump_release and set, a present patch comes with a present minor.
C28_PatchNeedsMinor ==
    (v # NoVersion /\ v.patch # None) => (v.minor # None)

\* C29: a reachable version a and the parsed version b are never both
\* equal (a == b) and ordered (a < b or b < a); b is Version(str(a)).
C29_EqualNotLess ==
    (v # NoVersion /\ Version(str(v)).err = NoError /\ eq(v, Version(str(v)).v)) =>
        (~lt(v, Version(str(v)).v) /\ ~lt(Version(str(v)).v, v))

\* the slots strictly to the left of the slot of part
SlotsBefore(part) == { Slots[i] : i \in 1..(IndexOf(SlotOf(part), Slots) - 1) }

\* C30: bump(p) with p in PARTS leaves every slot strictly to the left of
\* the slot of p as it was, except that bump("patch") turns an absent
\* minor into 0.
C30_BumpFrame ==
    (op.name = "bump" /\ In(op.part, PARTS)) =>
        \A f \in SlotsBefore(op.part) :
            \/ v[f] = old[f]
            \/ f = "minor" /\ op.part = "patch" /\ old.minor = None /\ v.minor = Some(0)

C30_Witness ==
    /\ op.name = "bump"
    /\ op.part = "local"
    /\ err = NoError
    /\ old.minor # None /\ old.patch # None
    /\ old.pre # "" /\ old.post # "" /\ old.dev # ""
    /\ old.local = "foo0123"
    /\ v.local = "foo0124"

=============================================================================
